---- MODULE Spec2Model ----
(***************************************************************************)
(* Model of similar-images.py: one run of main().  The pipeline is         *)
(*   get_all_files -> build_library -> get_doubles -> find_best_in_set     *)
(*   -> store_move_commands.                                               *)
(* Library indices are 0-based as in the program; TLA+ sequences are       *)
(* 1-based, so record number i of the library is library[i + 1].           *)
(***************************************************************************)
EXTENDS Integers, Sequences, FiniteSets, TLC

VARIABLES
    pc,             \* position of main(): which phase runs
    max_average,    \* options.average
    limit,          \* options.limit: <<>> is None, <<n>> is the number n
    paths,          \* result of get_all_files
    files,          \* what normalize_image met at each path read so far
    i,              \* loop counter of build_library / loop index of get_doubles
    library,        \* build_library: list of (path, normalized, shape)
    errors,         \* build_library: local list of caught load errors
    printed_errors, \* print_error: its default-argument list
    phase,          \* print_phase_start: its default-argument counter
    out,            \* lines printed on the console (banners and errors)
    doubles,        \* get_doubles: dict key -> list of recorded members
    evaluated,      \* pairs (i, j) handed to get_distance so far
    fs,             \* names of the files present in the move-to directory
    uuids,          \* number of uuid4 tokens drawn so far
    best,           \* find_best_in_set: per group handled, what was decided
    todo,           \* find_best_in_set: candidate_ids still to be moved
    moves,          \* find_best_in_set: list of (source, destination)
    assigned,       \* per move: was the destination absent when assigned
    script          \* store_move_commands: the mv lines of move-all.sh

vars == <<pc, max_average, limit, paths, files, i, library, errors,
          printed_errors, phase, out, doubles, evaluated, fs, uuids, best,
          todo, moves, assigned, script>>

---------------------------------------------------------------------------
(* Bounds and input domains *)

\* Largest number of files the traversal finds.
MaxPaths == 3

\* Values of --average that are tried.
Thresholds == {0, 2}

\* Values of --limit that are tried: absent, or a count; a count cuts the
\* longer lists of paths and reaches or exceeds the length of the shorter.
Limits == {<<>>} \cup {<<n>> : n \in 0..(MaxPaths - 1)}

\* Base names of the files found; file number k lies in directory number k.
\* A file name is stem + tag + ext; a name made from a uuid4 token has the
\* empty stem and the token's number (0: not made from a token).
Name(stem, token, tag, ext) == [stem |-> stem, token |-> token, tag |-> tag, ext |-> ext]
Basenames == {Name("a", 0, "", ".jpg"), Name("b", 0, "", ".png")}

\* A normalized array: its channel count (1: shape (100,100); 3: shape
\* (100,100,3)) and its pixel values, a few pixels standing for the 100x100.
Gray(data) == [channels |-> 1, data |-> data]
Colour(data) == [channels |-> 3, data |-> data]

\* What normalize_image can meet at a path: a decodable image (its
\* normalized array and original shape) or a file whose decoding raises.
Contents ==
    { [kind |-> "image", normalized |-> Gray(<<1, 0, 0, 0>>),     shape |-> <<10, 20>>],
      [kind |-> "image", normalized |-> Gray(<<0, 1, 0, 0>>),     shape |-> <<20, 10>>],
      [kind |-> "image", normalized |-> Gray(<<1, 0, 0, 0>>),     shape |-> <<15, 15>>],
      [kind |-> "image", normalized |-> Gray(<<50, 50, 50, 51>>), shape |-> <<10, 20>>],
      [kind |-> "image", normalized |-> Colour(<<1, 0, 0, 0, 0, 0, 0, 0, 0, 0, 0, 0>>),
                         shape |-> <<10, 20, 3>>],
      [kind |-> "ValueError", msg |-> "could not decode"],
      [kind |-> "OSError",    msg |-> "cannot identify image file"] }

\* The move-to directory as find_best_in_set may find it: empty, or holding
\* a file named as a source is and a file named as the first token drawn.
UuidName(k, ext) == Name("", k, "", ext)
FsChoices ==
    { {},
      {Name("a", 0, "", ".jpg"), UuidName(1, ".jpg")} }

---------------------------------------------------------------------------
(* Console *)

Banner(n, title) == [kind |-> "phase", n |-> n, text |-> title]
ErrorLine(msg)   == [kind |-> "error", n |-> 0, text |-> msg]

\* print_error: prints a message unless its text was printed before.
\* st = <<printed_errors, out>>.
print_error_nodedup(st, msg) ==
    <<Append(st[1], msg), Append(st[2], ErrorLine(msg))>>

print_error(st, msg) ==
    IF \E k \in 1..Len(st[1]) : st[1][k] = msg
    THEN st
    ELSE <<Append(st[1], msg), Append(st[2], ErrorLine(msg))>>

Range(s) == {s[k] : k \in 1..Len(s)}

\* The orders in which a set of messages can be iterated.
Orders(S) ==
    {s \in [1..Cardinality(S) -> S] : \A m \in S : \E k \in DOMAIN s : s[k] = m}

\* print_errors: if there are errors, a banner and then each distinct
\* message text once, in the iteration order of the set.
\* Returns <<phase, out>>.
print_errors(ph, o, errs, order) ==
    IF Len(errs) > 0
    THEN <<ph + 1,
           Append(o, Banner(ph, "Print Errors"))
             \o [k \in 1..Len(order) |-> ErrorLine(order[k])]>>
    ELSE <<ph, o>>

---------------------------------------------------------------------------
(* build_library *)

Min(a, b) == IF a < b THEN a ELSE b
Max(a, b) == IF a > b THEN a ELSE b

\* paths[:limit] with limit = len(paths) when it is None.
Slice(ps, lim) ==
    LET n == IF lim = <<>> THEN Len(ps) ELSE lim[1]
        stop == IF n >= 0 THEN Min(n, Len(ps)) ELSE Max(Len(ps) + n, 0)
    IN  SubSeq(ps, 1, stop)

IsImage(c) == c.kind = "image"

\* The try/except/else of the loop body: the library after one path.
LibraryAppend_hole(lib, path, c) ==
    Append(lib, [path |-> path,
                 normalized |-> IF IsImage(c) THEN c.normalized ELSE Gray(<<0, 0, 0, 0>>),
                 shape |-> IF IsImage(c) THEN c.shape ELSE <<0, 0>>])

LibraryAppend(lib, path, c) ==
    IF IsImage(c)
    THEN Append(lib, [path |-> path, normalized |-> c.normalized, shape |-> c.shape])
    ELSE lib

\* ... and the local error list after one path.
ErrorsAppend(errs, c) ==
    IF IsImage(c) THEN errs ELSE Append(errs, c.msg)

---------------------------------------------------------------------------
(* Initial state and actions *)

Init ==
    /\ pc = "get_all_files"
    /\ max_average \in Thresholds
    /\ limit \in Limits
    /\ paths = <<>>
    /\ files = <<>>
    /\ i = 0
    /\ library = <<>>
    /\ errors = <<>>
    /\ printed_errors = <<>>
    /\ phase = 1
    /\ out = <<>>
    /\ doubles = <<>>
    /\ evaluated = {}
    /\ fs = {}
    /\ uuids = 0
    /\ best = <<>>
    /\ todo = <<>>
    /\ moves = <<>>
    /\ assigned = <<>>
    /\ script = <<>>

\* main: get_all_files walks the directories; build_library starts.
GetAllFiles ==
    /\ pc = "get_all_files"
    /\ \E n \in 0..MaxPaths : \E bs \in [1..n -> Basenames] :
          paths' = [k \in 1..n |-> [dir |-> k, base |-> bs[k]]]
    /\ out' = out \o <<Banner(phase, "Traverse Paths"), Banner(phase + 1, "Read Images")>>
    /\ phase' = phase + 2
    /\ i' = 0
    /\ library' = <<>>
    /\ errors' = <<>>
    /\ pc' = "build_library"
    /\ UNCHANGED <<max_average, limit, files, printed_errors, doubles, evaluated,
                   fs, uuids, best, todo, moves, assigned, script>>

\* build_library: one iteration of the loop over paths[:limit].
LoadPath ==
    /\ pc = "build_library"
    /\ i < Len(Slice(paths, limit))
    /\ \E c \in Contents :
          /\ files' = Append(files, c)
          /\ library' = LibraryAppend(library, Slice(paths, limit)[i + 1], c)
          /\ errors' = ErrorsAppend(errors, c)
    /\ i' = i + 1
    /\ UNCHANGED <<pc, max_average, limit, paths, printed_errors, phase, out,
                   doubles, evaluated, fs, uuids, best, todo, moves, assigned, script>>

\* build_library: after the loop, print_errors and return; get_doubles starts.
FinishBuildLibrary ==
    /\ pc = "build_library"
    /\ i = Len(Slice(paths, limit))
    /\ \E order \in Orders(Range(errors)) :
          LET r == print_errors(phase, out, errors, order)
          IN  /\ out' = Append(r[2], Banner(r[1], "Find Duplicates"))
              /\ phase' = r[1] + 1
    /\ i' = 0
    /\ doubles' = <<>>
    /\ pc' = "get_doubles"
    /\ UNCHANGED <<max_average, limit, paths, files, library, errors, printed_errors,
                   evaluated, fs, uuids, best, todo, moves, assigned, script>>

---------------------------------------------------------------------------
(* get_doubles *)

lib(l, k) == l[k + 1]

RECURSIVE SumAbs(_, _)
SumAbs(a, b) ==
    IF a = <<>> THEN 0
    ELSE (IF a[1] >= b[1] THEN a[1] - b[1] ELSE b[1] - a[1]) + SumAbs(Tail(a), Tail(b))

BroadcastMsg(c1, c2) ==
    IF c1 = 1 THEN "operands could not be broadcast together with shapes (100,100) (100,100,3)"
    ELSE "operands could not be broadcast together with shapes (100,100,3) (100,100)"

\* get_distance: the mean absolute difference num/den of the two normalized
\* arrays, or, when np.subtract raises ValueError, float('inf') and the
\* message handed to print_error.
get_distance(l, a, b) ==
    LET n1 == lib(l, a).normalized
        n2 == lib(l, b).normalized
    IN  IF n1.channels # n2.channels
        THEN [inf |-> TRUE, num |-> 0, den |-> 1, msg |-> BroadcastMsg(n1.channels, n2.channels)]
        ELSE [inf |-> FALSE, num |-> SumAbs(n1.data, n2.data), den |-> Len(n1.data), msg |-> ""]

\* average < max_average
Below(d, T) == ~d.inf /\ d.num < T * d.den

\* get_doubles_of: zip(itertools.count(0), averages) numbers the averages
\* from 0, the averages being those of j = i + 1, i + 2, ...
get_doubles_of(l, a, T) ==
    SelectSeq([k \in 1..(Len(l) - a - 1) |-> k - 1],
              LAMBDA idx : Below(get_distance(l, a, a + 1 + idx), T))

\* The messages get_distance hands to print_error during get_doubles_of.
RECURSIVE CompareMsgs(_, _, _)
CompareMsgs(l, a, j) ==
    IF j >= Len(l) THEN <<>>
    ELSE (IF get_distance(l, a, j).inf THEN <<get_distance(l, a, j).msg>> ELSE <<>>)
         \o CompareMsgs(l, a, j + 1)

RECURSIVE PrintAll(_, _)
PrintAll(st, msgs) ==
    IF msgs = <<>> THEN st ELSE PrintAll(print_error(st, Head(msgs)), Tail(msgs))

\* any(i in seconds for first, seconds in doubles.items())
Skip_never(d, a) == FALSE

Skip(d, a) ==
    \E g \in 1..Len(d) : \E k \in 1..Len(d[g].members) : d[g].members[k] = a

\* get_doubles: one iteration of the loop over range(len(library)).
DoublesStep ==
    /\ pc = "get_doubles"
    /\ i < Len(library)
    /\ IF Skip(doubles, i)
       THEN UNCHANGED <<doubles, evaluated, printed_errors, out>>
       ELSE LET doubles_i == get_doubles_of(library, i, max_average)
                st == PrintAll(<<printed_errors, out>>, CompareMsgs(library, i, i + 1))
            IN  /\ doubles' = IF Len(doubles_i) > 0
                              THEN Append(doubles, [key |-> i, members |-> doubles_i])
                              ELSE doubles
                /\ evaluated' = evaluated \cup {<<i, j>> : j \in (i + 1)..(Len(library) - 1)}
                /\ printed_errors' = st[1]
                /\ out' = st[2]
    /\ i' = i + 1
    /\ UNCHANGED <<pc, max_average, limit, paths, files, library, errors, phase,
                   fs, uuids, best, todo, moves, assigned, script>>

\* get_doubles returns; find_best_in_set starts and meets the move-to directory.
FinishGetDoubles ==
    /\ pc = "get_doubles"
    /\ i = Len(library)
    /\ out' = Append(out, Banner(phase, "Find Best Image in Set"))
    /\ phase' = phase + 1
    /\ fs' \in FsChoices
    /\ moves' = <<>>
    /\ pc' = "find_best_in_set"
    /\ UNCHANGED <<max_average, limit, paths, files, i, library, errors,
                   printed_errors, doubles, evaluated, uuids, best, todo, assigned, script>>

---------------------------------------------------------------------------
(* find_best_in_set *)

\* Python's comparison of tuples of ints: a < b.
RECURSIVE TupleLess(_, _)
TupleLess(a, b) ==
    IF a = <<>> THEN b # <<>>
    ELSE IF b = <<>> THEN FALSE
    ELSE IF a[1] # b[1] THEN a[1] < b[1]
    ELSE TupleLess(Tail(a), Tail(b))

\* argmax: max(enumerate(iterable), key=...)[0], the 0-based position of the
\* first greatest element.
argmax(s) ==
    CHOOSE k \in 0..(Len(s) - 1) :
        /\ \A m \in 0..(Len(s) - 1) : ~TupleLess(s[k + 1], s[m + 1])
        /\ \A m \in 0..(k - 1) : TupleLess(s[m + 1], s[k + 1])

\* del s[k] for a 0-based position k.
Del(s, k) == SubSeq(s, 1, k) \o SubSeq(s, k + 2, Len(s))

\* The while loop of lines 188-192: draw tokens until the name is free.
\* Returns <<destination, number of tokens drawn so far>>.
RECURSIVE UuidLoop(_, _, _, _)
UuidLoop(destination, ext, k, files_there) ==
    IF destination \in files_there
    THEN UuidLoop(UuidName(k + 1, ext), ext, k + 1, files_there)
    ELSE <<destination, k>>

\* The files written next to a destination: base + '-proof.jpg' and so on.
Artifacts(destination) ==
    {Name(destination.stem, destination.token, tag, ".jpg") :
        tag \in {"-proof", "-keep", "-move"}}

\* One iteration of the loop over doubles.items(), up to line 183.
BestGroup ==
    /\ pc = "find_best_in_set"
    /\ todo = <<>>
    /\ Len(best) < Len(doubles)
    /\ LET g == doubles[Len(best) + 1]
           candidate_ids == <<g.key>> \o g.members
           shapes == [c \in 1..Len(candidate_ids) |-> lib(library, candidate_ids[c]).shape]
           best_idx == argmax(shapes)
       IN  /\ best' = Append(best, [key |-> g.key,
                                    candidate_ids |-> candidate_ids,
                                    best_idx |-> best_idx,
                                    best_i |-> candidate_ids[best_idx + 1],
                                    first_move |-> Len(moves) + 1])
           /\ todo' = Del(candidate_ids, best_idx)
    /\ UNCHANGED <<pc, max_average, limit, paths, files, i, library, errors,
                   printed_errors, phase, out, doubles, evaluated, fs, uuids, moves,
                   assigned, script>>

\* One iteration of the loop over candidate_ids, lines 184-203.
MoveCandidate ==
    /\ pc = "find_best_in_set"
    /\ todo # <<>>
    /\ LET filename_move == lib(library, Head(todo)).path
           r == UuidLoop(filename_move.base, filename_move.base.ext, uuids, fs)
       IN  /\ moves' = Append(moves, [source |-> filename_move, destination |-> r[1]])
           /\ assigned' = Append(assigned, r[1] \notin fs)
           /\ uuids' = r[2]
           /\ fs' = fs \cup Artifacts(r[1])
    /\ todo' = Tail(todo)
    /\ UNCHANGED <<pc, max_average, limit, paths, files, i, library, errors,
                   printed_errors, phase, out, doubles, evaluated, best, script>>

\* find_best_in_set returns; store_move_commands writes move-all.sh.
StoreMoveCommands ==
    /\ pc = "find_best_in_set"
    /\ todo = <<>>
    /\ Len(best) = Len(doubles)
    /\ out' = Append(out, Banner(phase, "Store Move Script"))
    /\ phase' = phase + 1
    /\ script' = [k \in 1..Len(moves) |-> <<"mv", moves[k].source, moves[k].destination>>]
    /\ pc' = "done"
    /\ UNCHANGED <<max_average, limit, paths, files, i, library, errors,
                   printed_errors, doubles, evaluated, fs, uuids, best, todo, moves,
                   assigned>>

Next ==
    \/ GetAllFiles
    \/ LoadPath
    \/ FinishBuildLibrary
    \/ DoublesStep
    \/ FinishGetDoubles
    \/ BestGroup
    \/ MoveCandidate
    \/ StoreMoveCommands

Spec == Init /\ [][Next]_vars

---------------------------------------------------------------------------
(* Properties *)

NLib == Len(library)
AfterGetDoubles == pc \in {"find_best_in_set", "done"}
Keys(d) == {d[g].key : g \in 1..Len(d)}
MemberValues(d) == UNION {Range(d[g].members) : g \in 1..Len(d)}
Sources == {moves[k].source : k \in 1..Len(moves)}
Count(s, x) == Cardinality({k \in 1..Len(s) : s[k] = x})

\* distance(a, b) < T for library indices a, b
Dup(a, b) == Below(get_distance(library, a, b), max_average)

\* the ascending list of the j with a < j < len(library) and distance(a, j) < T
DuplicatesOf(a) ==
    SelectSeq([k \in 1..(NLib - a - 1) |-> a + k], LAMBDA j : Dup(a, j))

\* distance(a, b) = num / den
DistanceIs(a, b, num, den) ==
    LET d == get_distance(library, a, b)
    IN  ~d.inf /\ d.num * den = num * d.den

\* three images, threshold 2, distance 0.5 between the first two and 50
\* from the third to both
Scenario ==
    /\ NLib = 3
    /\ max_average = 2
    /\ DistanceIs(0, 1, 1, 2)
    /\ DistanceIs(0, 2, 50, 1)
    /\ DistanceIs(1, 2, 50, 1)

\* C1: on the three-image scenario get_doubles returns exactly the group
\* {0: [1]}, the third image is in no group and is the source of no move, and
\* if the second image has the larger original shape there is exactly one
\* move, its source is the first image, and the second image is not moved.
C1_EndToEnd ==
    (AfterGetDoubles /\ Scenario) =>
        /\ doubles = <<[key |-> 0, members |-> <<1>>]>>
        /\ 2 \notin Keys(doubles) \cup MemberValues(doubles)
        /\ pc = "done" =>
              /\ lib(library, 2).path \notin Sources
              /\ TupleLess(lib(library, 0).shape, lib(library, 1).shape) =>
                    /\ Len(moves) = 1
                    /\ moves[1].source = lib(library, 0).path
                    /\ lib(library, 1).path \notin Sources

\* C2: the member list of every group key i is exactly the ascending list of
\* the library indices j with i < j < len(library) and distance(i, j) < T.
C2_MembersAreTheDuplicates ==
    AfterGetDoubles =>
        \A g \in 1..Len(doubles) : doubles[g].members = DuplicatesOf(doubles[g].key)

\* the moves recorded for the group that best[g] describes
GroupMoves(g) ==
    SubSeq(moves, best[g].first_move,
           best[g].first_move + Len(best[g].candidate_ids) - 2)

\* C3: for each group the candidates are the key followed by the members, the
\* kept candidate has the greatest original_shape under tuple comparison, and
\* exactly one move is recorded for every other candidate and none for the
\* kept one.
C3_KeepLargestMoveOthers ==
    pc = "done" =>
        \A g \in 1..Len(best) :
            LET b == best[g]
                srcs == GroupMoves(g)
            IN  /\ b.candidate_ids = <<doubles[g].key>> \o doubles[g].members
                /\ \A c \in Range(b.candidate_ids) :
                      ~TupleLess(lib(library, b.best_i).shape, lib(library, c).shape)
                /\ \A c \in Range(b.candidate_ids) :
                      Cardinality({k \in 1..Len(srcs) : srcs[k].source = lib(library, c).path})
                          = IF c = b.best_i THEN 0 ELSE 1

\* C4: the destinations of the move list are pairwise distinct, and each was
\* the name of no existing file when it was assigned.
C4_DestinationsUnique ==
    /\ \A k, m \in 1..Len(moves) : k # m => moves[k].destination # moves[m].destination
    /\ \A k \in 1..Len(assigned) : assigned[k]

\* C5: after get_doubles no index is in the member lists of two groups, and
\* no index is both a key and a member.
C5_AtMostOneGroup ==
    AfterGetDoubles =>
        /\ \A g, h \in 1..Len(doubles) :
              g # h => Range(doubles[g].members) \cap Range(doubles[h].members) = {}
        /\ Keys(doubles) \cap MemberValues(doubles) = {}

\* the part of the library build_library must have built from the first k
\* paths read
RECURSIVE Loaded(_, _)
Loaded(sel, k) ==
    IF k = 0 THEN <<>>
    ELSE Loaded(sel, k - 1) \o
         (IF files[k].kind = "image"
          THEN <<[path |-> sel[k], normalized |-> files[k].normalized, shape |-> files[k].shape]>>
          ELSE <<>>)

Failed(k) == {m \in 1..k : files[m].kind # "image"}

C7_IncomparableNeverDuplicate ==
    AfterGetDoubles =>
        /\ i = NLib
        /\ \A a, b \in 0..(NLib - 1) :
              (a < b /\ get_distance(library, a, b).inf) =>
                  /\ <<a, b>> \in evaluated =>
                        get_distance(library, a, b).msg \in Range(printed_errors)
                  /\ ~\E g \in 1..Len(doubles) :
                        doubles[g].key = a /\ b \in Range(doubles[g].members)

IsErrorLine(l) == l.kind = "error"
ErrorLines == {k \in 1..Len(out) : IsErrorLine(out[k])}

FindDuplicatesAt ==
    IF \E k \in 1..Len(out) : out[k].text = "Find Duplicates"
    THEN CHOOSE k \in 1..Len(out) : out[k].text = "Find Duplicates"
    ELSE 0

CompareErrors == {get_distance(library, pr[1], pr[2]).msg :
                     pr \in {q \in evaluated : get_distance(library, q[1], q[2]).inf}}

C9_MemberNeverBecomesKey ==
    [][\A k \in MemberValues(doubles) :
          /\ k \in Keys(doubles') => k \in Keys(doubles)
          /\ \A pr \in evaluated' \ evaluated : pr[1] # k]_vars

\* the pass went by an index that was a member by then and had later indices
C9_Witness ==
    /\ pc = "get_doubles"
    /\ \E g \in 1..Len(doubles) : \E k \in Range(doubles[g].members) :
          /\ doubles[g].key < k
          /\ k < i
          /\ k + 1 < NLib
          /\ k \notin Keys(doubles)
          /\ \A pr \in evaluated : pr[1] # k

\* C10: a kept representative is the source of no move, no path is the
\* source of two moves, and every moved image is within threshold of an image
\* that is not moved.
C10_NoDataLoss ==
    pc = "done" =>
        /\ \A g \in 1..Len(best) : lib(library, best[g].best_i).path \notin Sources
        /\ \A k, m \in 1..Len(moves) : k # m => moves[k].source # moves[m].source
        /\ \A a \in 0..(NLib - 1) :
              lib(library, a).path \in Sources =>
                  \E b \in 0..(NLib - 1) :
                      /\ lib(library, b).path \notin Sources
                      /\ a # b
                      /\ Dup(IF a < b THEN a ELSE b, IF a < b THEN b ELSE a)
====
